---- MODULE Spec2Model ----
(***************************************************************************)
(* Model of discord_http/member.py (PartialMember, Member) and             *)
(* discord_http/mentions.py (AllowedMentions).                             *)
(*                                                                         *)
(* One behaviour is one call of one public operation on one object: Init   *)
(* draws the receiver and the arguments, the operation's action runs the   *)
(* method body up to its first await of DiscordAPI.query, and the          *)
(* operation's resume action runs it from the dispatcher's answer to the   *)
(* next await or to the return.  The dispatcher is external: all that is   *)
(* modelled of it is the log of the requests it was handed (calls) and of  *)
(* the answers it gave (responses).                                        *)
(*                                                                         *)
(* Python values are tagged records [kind, val]; kind is the runtime type  *)
(* the code inspects (isinstance, "is MISSING", "is True", truthiness).    *)
(* A JSON object is a function from its keys to its values.                *)
(***************************************************************************)
EXTENDS Integers, Sequences, FiniteSets, TLC

VARIABLES op, args, pc, calls, responses, idx, outcome, self, ret, now

vars == <<op, args, pc, calls, responses, idx, outcome, self, ret, now>>

(* ------------------------------ bounds -------------------------------- *)

\* longest role list handed to add_roles / remove_roles / edit(roles=...)
MaxRoles == 2
\* longest explicit identifier list of an AllowedMentions
MaxIds == 2
\* identifiers are drawn from 1..MaxId
MaxId == 2
\* delete_message_days is drawn from -1..MaxDaysArg
MaxDaysArg == 8
\* delete_message_seconds is drawn up to SecondsLimit + MaxSecondsOver
MaxSecondsOver == 1

(* ------------------------- program constants -------------------------- *)

\* timedelta(days=1).total_seconds()
SecondsPerDay == 86400
\* range(0, 8): the largest delete_message_days accepted
DaysLimit == 7
\* range(0, 604801): the largest delete_message_seconds accepted
SecondsLimit == 604800

(* --------------------------- generic helpers -------------------------- *)

\* all sequences over S of length 0..n
SeqsUpTo(S, n) == UNION {[1..k -> S] : k \in 0..n}

\* the empty JSON object / an object with one key
EmptyObj == [k \in {} |-> 0]
Obj1(k, v) == [x \in {k} |-> v]

GuildIds == {90}
MemberIds == {5}

(* ------------------------ the request dispatcher ---------------------- *)

\* f"/guilds/{guild_id}/bans/{id}", f"/guilds/{guild_id}/members/{id}" and
\* f"/guilds/{guild_id}/members/{id}/roles/{role}" as the filled template:
\* res names the template, role is 0 where the template has no role.
Path(res, guild, member, role) ==
    [res |-> res, guild |-> guild, member |-> member, role |-> role]

\* one self._state.query(method, path, json=...) as the dispatcher sees it
Query(method, path, has_json, json) ==
    [method |-> method, path |-> path, has_json |-> has_json, json |-> json]

\* what awaiting a query gives: the response, or the dispatcher's exception
Answers == {"ok", "error"}

\* the await of a query whose answer is a: the value comes back to the
\* coroutine, or the exception propagates out of it (no method catches it)
AfterAwait(a) == IF a = "ok" THEN "returned" ELSE "HTTPException"

(* ------------------------- PartialMember.ban -------------------------- *)

\* truth value of a Python int
Truthy(n) == n # 0

\* x in range(lo, hi)
InRangeOffByOne(x, lo, hi) == x \in lo..hi
InRange(x, lo, hi) == x \in lo..(hi - 1)

\* int(timedelta(days=d).total_seconds())
DaysToSecondsAsHours(d) == d * 3600
DaysToSeconds(d) == d * SecondsPerDay

\* if delete_message_days and delete_message_seconds: raise ValueError
BanBothGivenDropped(d, s) == FALSE
BanBothGiven(d, s) == Truthy(d) /\ Truthy(s)

\* the exception ban() raises before its query, "none" when it raises none
BanRaises(d, s) ==
    IF BanBothGiven(d, s) THEN "ValueError"
    ELSE IF Truthy(d) /\ ~InRange(d, 0, DaysLimit + 1) THEN "ValueError"
    ELSE IF Truthy(s) /\ ~InRange(s, 0, SecondsLimit + 1) THEN "ValueError"
    ELSE "none"

\* payload = {}, then the two conditional assignments in their order
BanPayload(d, s) ==
    LET p0 == EmptyObj
        p1 == IF Truthy(d)
              THEN Obj1("delete_message_seconds", DaysToSeconds(d))
              ELSE p0
    IN  IF Truthy(s) THEN Obj1("delete_message_seconds", s) ELSE p1

BanArgs ==
    [guild_id : GuildIds, id : MemberIds,
     delete_message_days : -1..MaxDaysArg,
     delete_message_seconds :
        {-1, 0, 1, 2, SecondsPerDay}
        \cup {SecondsLimit + k : k \in -1..MaxSecondsOver}]

Ban ==
    /\ pc = "start" /\ op = "ban"
    /\ LET d == args.delete_message_days
           s == args.delete_message_seconds
       IN  IF BanRaises(d, s) # "none"
           THEN /\ outcome' = BanRaises(d, s)
                /\ pc' = "done"
                /\ calls' = calls
           ELSE /\ calls' = Append(calls,
                        Query("PUT", Path("bans", args.guild_id, args.id, 0),
                              TRUE, BanPayload(d, s)))
                /\ pc' = "await"
                /\ outcome' = outcome
    /\ UNCHANGED <<op, args, responses, idx, self, ret, now>>

BanResume ==
    /\ pc = "await" /\ op = "ban"
    /\ \E a \in Answers :
          /\ responses' = Append(responses, a)
          /\ outcome' = AfterAwait(a)
    /\ pc' = "done"
    /\ UNCHANGED <<op, args, calls, idx, self, ret, now>>

(* ------------- PartialMember.add_roles / remove_roles ----------------- *)

\* a role argument: a PartialRole or Role object holding its identifier in
\* .id, or a raw int (val); the field that does not apply is 0
RoleRefs ==
    { [kind |-> "PartialRole", id |-> 1, val |-> 0],
      [kind |-> "Role",        id |-> 2, val |-> 0],
      [kind |-> "int",         id |-> 0, val |-> 3] }

\* role.id if isinstance(role, (PartialRole, Role)) else role
RoleId(role) ==
    IF role.kind \in {"PartialRole", "Role"} THEN role.id ELSE role.val

\* the query of one iteration of "for role in roles"
RoleQuery(method, a, role) ==
    Query(method, Path("roles", a.guild_id, a.id, RoleId(role)), FALSE, EmptyObj)

\* whether the loop runs another iteration once the i-th of n queries was
\* answered a: an exception leaves the loop and the method
LoopGoesOnSwallowing(a, i, n) == i < n
LoopGoesOn(a, i, n) == a = "ok" /\ i < n

RolesArgs ==
    [guild_id : GuildIds, id : MemberIds, roles : SeqsUpTo(RoleRefs, MaxRoles)]

\* the method up to its first await: the first iteration, or the return
\* of a call without roles
RolesStart(method) ==
    /\ pc = "start"
    /\ IF Len(args.roles) = 0
       THEN /\ pc' = "done"
            /\ outcome' = "returned"
            /\ UNCHANGED <<calls, idx>>
       ELSE /\ calls' = Append(calls, RoleQuery(method, args, args.roles[1]))
            /\ idx' = 1
            /\ pc' = "await"
            /\ outcome' = outcome
    /\ UNCHANGED <<op, args, responses, self, ret, now>>

\* from the answer to the idx-th query to the next await or to the end
RolesResume(method) ==
    /\ pc = "await"
    /\ \E a \in Answers :
          /\ responses' = Append(responses, a)
          /\ IF LoopGoesOn(a, idx, Len(args.roles))
             THEN /\ calls' = Append(calls,
                          RoleQuery(method, args, args.roles[idx + 1]))
                  /\ idx' = idx + 1
                  /\ UNCHANGED <<pc, outcome>>
             ELSE /\ pc' = "done"
                  /\ outcome' = AfterAwait(a)
                  /\ UNCHANGED <<calls, idx>>
    /\ UNCHANGED <<op, args, self, ret, now>>

AddRoles == op = "add_roles" /\ RolesStart("PUT")
AddRolesResume == op = "add_roles" /\ RolesResume("PUT")
RemoveRoles == op = "remove_roles" /\ RolesStart("DELETE")
RemoveRolesResume == op = "remove_roles" /\ RolesResume("DELETE")

(* ------------------------- PartialMember.edit ------------------------- *)

\* utils.MISSING, None, and values by runtime type
Missing(zero) == [kind |-> "missing", val |-> zero]
PyNone(zero) == [kind |-> "none", val |-> zero]
Val(kind, v) == [kind |-> kind, val |-> v]

\* x is not MISSING
SuppliedNotNone(v) == v.kind \notin {"missing", "none"}
Supplied(v) == v.kind # "missing"

\* isinstance(roles, list) and roles is not MISSING
RolesGiven(v) == v.kind = "list" /\ Supplied(v)

\* [role.id if isinstance(role, (PartialRole, Role)) else role for role in roles]
RoleIdList(roles) == [i \in 1..Len(roles) |-> RoleId(roles[i])]

\* a naive datetime: day number and second of the day; a timedelta:
\* normalised to days and 0 <= seconds < 86400, as the constructor does
Datetime(t) == [days |-> t \div SecondsPerDay, secs |-> t % SecondsPerDay]
Timedelta(n) == [days |-> n \div SecondsPerDay, seconds |-> n % SecondsPerDay]

\* datetime.__add__(timedelta): seconds carry into days
DatetimeAdd(dt, td) ==
    LET s == dt.secs + td.seconds
    IN  [days |-> dt.days + td.days + s \div SecondsPerDay,
         secs |-> s % SecondsPerDay]

\* datetime.isoformat(): the date, then "T", hours, minutes and seconds
IsoFormat(dt) ==
    [date |-> dt.days,
     hour |-> dt.secs \div 3600,
     minute |-> (dt.secs % 3600) \div 60,
     second |-> dt.secs % 60]

\* the match statement on communication_disabled_until; bool is a subclass
\* of int, so True and False take the int case
ResolveTimeoutIntAbsolute(x, t) ==
    CASE x.kind = "timedelta" -> Val("datetime", DatetimeAdd(Datetime(t), Timedelta(x.val)))
      [] x.kind = "datetime" -> Val("datetime", Datetime(x.val))
      [] x.kind \in {"int", "bool"} -> Val("datetime", Datetime(x.val))
      [] x.kind = "none" -> PyNone(Datetime(0))
      [] OTHER -> Val("TypeError", Datetime(0))
ResolveTimeout(x, t) ==
    CASE x.kind = "timedelta" -> Val("datetime", DatetimeAdd(Datetime(t), Timedelta(x.val)))
      [] x.kind = "datetime" -> Val("datetime", Datetime(x.val))
      [] x.kind \in {"int", "bool"} -> Val("datetime", DatetimeAdd(Datetime(t), Timedelta(x.val)))
      [] x.kind = "none" -> PyNone(Datetime(0))
      [] OTHER -> Val("TypeError", Datetime(0))

\* the exception edit() raises before its query, "none" when it raises
\* none: TypeError from the match, AttributeError from None.isoformat()
EditRaises(a, t) ==
    IF ~Supplied(a.communication_disabled_until) THEN "none"
    ELSE LET v == ResolveTimeout(a.communication_disabled_until, t)
         IN  CASE v.kind = "TypeError" -> "TypeError"
               [] v.kind = "none" -> "AttributeError"
               [] OTHER -> "none"

\* the keys the conditional assignments put into payload
EditKeys(a) ==
    {k \in {"nick", "mute", "deaf", "channel_id",
            "communication_disabled_until"} : Supplied(a[k])}
    \cup (IF RolesGiven(a.roles) THEN {"roles"} ELSE {})

\* payload as handed to the query (when nothing was raised)
EditPayload(a, t) ==
    [k \in EditKeys(a) |->
        CASE k = "roles" -> Val("list", RoleIdList(a.roles.val))
          [] k = "communication_disabled_until" ->
                Val("str", IsoFormat(ResolveTimeout(a[k], t).val))
          [] OTHER -> a[k]]

\* the clock datetime.utcnow() reads, in seconds
NowValues == {2 * SecondsPerDay - 10, 3 * SecondsPerDay + 7200}

TimeoutValues ==
    { Missing(0), PyNone(0),
      Val("timedelta", 60), Val("timedelta", SecondsPerDay + 3600),
      Val("datetime", 5 * SecondsPerDay + 3661),
      Val("int", 0), Val("int", 3600), Val("bool", 1),
      Val("str", 0), Val("float", 0) }

EditArgs ==
    [guild_id : GuildIds, id : MemberIds,
     nick : {Missing(""), PyNone(""), Val("str", "nick")},
     roles : {Missing(<<>>), PyNone(<<>>)}
             \cup {Val("list", r) : r \in SeqsUpTo(RoleRefs, MaxRoles)},
     mute : {Missing(FALSE), PyNone(FALSE), Val("bool", FALSE)},
     deaf : {Missing(FALSE), Val("bool", TRUE)},
     channel_id : {Missing(0), PyNone(0), Val("int", 33)},
     communication_disabled_until : TimeoutValues]

Edit ==
    /\ pc = "start" /\ op = "edit"
    /\ IF EditRaises(args, now) # "none"
       THEN /\ outcome' = EditRaises(args, now)
            /\ pc' = "done"
            /\ calls' = calls
       ELSE /\ calls' = Append(calls,
                    Query("PATCH", Path("members", args.guild_id, args.id, 0),
                          TRUE, EditPayload(args, now)))
            /\ pc' = "await"
            /\ outcome' = outcome
    /\ UNCHANGED <<op, args, responses, idx, self, ret, now>>

\* the answer builds the Member that edit() returns
EditResume ==
    /\ pc = "await" /\ op = "edit"
    /\ \E a \in Answers :
          /\ responses' = Append(responses, a)
          /\ outcome' = AfterAwait(a)
          /\ ret' = IF a = "ok" THEN [kind |-> "Member"] ELSE ret
    /\ pc' = "done"
    /\ UNCHANGED <<op, args, calls, idx, self, now>>

(* --------------------------- AllowedMentions -------------------------- *)

\* utils.Snowflake: anything with an .id
Snowflakes == {[id |-> n] : n \in 1..MaxId}

\* __init__: the four arguments stored as attributes
AllowedMentions(everyone, users, roles, replied_user) ==
    [kind |-> "AllowedMentions", everyone |-> everyone, users |-> users,
     roles |-> roles, reply_user |-> replied_user]

\* cls(everyone=True, roles=True, users=True, replied_user=True)
PresetAllNoReply ==
    AllowedMentions(TRUE, Val("bool", TRUE), Val("bool", TRUE), FALSE)
PresetAll ==
    AllowedMentions(TRUE, Val("bool", TRUE), Val("bool", TRUE), TRUE)

\* cls(everyone=False, roles=False, users=False, replied_user=False)
PresetNone ==
    AllowedMentions(FALSE, Val("bool", FALSE), Val("bool", FALSE), FALSE)

\* isinstance(x, list)  /  x is True
IsList(v) == v.kind = "list"
IsTrue(v) == v.kind = "bool" /\ v.val = TRUE

\* [x.id for x in xs]
IdsOfReversed(xs) == [i \in 1..Len(xs) |-> xs[Len(xs) + 1 - i].id]
IdsOf(xs) == [i \in 1..Len(xs) |-> xs[i].id]

\* to_dict(): parse grows in the order everyone, users, roles; data gets
\* users / roles for a list, replied_user for a true reply_user, then parse
ToDict(m) ==
    LET p0 == <<>>
        p1 == IF m.everyone THEN Append(p0, "everyone") ELSE p0
        p2 == IF ~IsList(m.users) /\ IsTrue(m.users)
              THEN Append(p1, "users") ELSE p1
        p3 == IF ~IsList(m.roles) /\ IsTrue(m.roles)
              THEN Append(p2, "roles") ELSE p2
        keys == (IF IsList(m.users) THEN {"users"} ELSE {})
                \cup (IF IsList(m.roles) THEN {"roles"} ELSE {})
                \cup (IF m.reply_user THEN {"replied_user"} ELSE {})
                \cup {"parse"}
    IN  [k \in keys |->
            CASE k = "users" -> IdsOf(m.users.val)
              [] k = "roles" -> IdsOf(m.roles.val)
              [] k = "replied_user" -> TRUE
              [] k = "parse" -> p3]

MentionField ==
    {Val("bool", TRUE), Val("bool", FALSE)}
    \cup {Val("list", xs) : xs \in SeqsUpTo(Snowflakes, MaxIds)}

MentionsArgs ==
    [everyone : BOOLEAN, users : MentionField \cup {PyNone(FALSE)},
     roles : MentionField, replied_user : BOOLEAN]

NoArgs == [none |-> TRUE]

MentionsInit ==
    /\ pc = "start" /\ op = "to_dict"
    /\ self' = AllowedMentions(args.everyone, args.users, args.roles,
                               args.replied_user)
    /\ pc' = "constructed"
    /\ UNCHANGED <<op, args, calls, responses, idx, outcome, ret, now>>

MentionsAll ==
    /\ pc = "start" /\ op = "all"
    /\ self' = PresetAll
    /\ pc' = "constructed"
    /\ UNCHANGED <<op, args, calls, responses, idx, outcome, ret, now>>

MentionsNone ==
    /\ pc = "start" /\ op = "none"
    /\ self' = PresetNone
    /\ pc' = "constructed"
    /\ UNCHANGED <<op, args, calls, responses, idx, outcome, ret, now>>

MentionsToDict ==
    /\ pc = "constructed" /\ op \in {"to_dict", "all", "none"}
    /\ ret' = ToDict(self)
    /\ outcome' = "returned"
    /\ pc' = "done"
    /\ UNCHANGED <<op, args, calls, responses, idx, self, now>>

(* ------------------------ Member.display_name ------------------------- *)

\* data.get("nick", None): the key may be absent from the payload
DictGet(v) == IF v.kind = "absent" THEN PyNone("") ELSE v

\* Member.__init__, the attributes display_name reads: nick from the
\* payload, the embedded user's global_name and name
Member(data) ==
    [kind |-> "Member", nick |-> DictGet(data.nick),
     global_name |-> data.user.global_name, name |-> data.user.username]

\* truth value of an Optional[str]
StrTruthy(v) == v.kind = "str" /\ v.val # ""

\* a or b
PyOr(a, b) == IF StrTruthy(a) THEN a ELSE b

\* self.nick or self.global_name or self.name
DisplayNameGlobalFirst(m) == PyOr(PyOr(m.global_name, m.nick), m.name)
DisplayName(m) == PyOr(PyOr(m.nick, m.global_name), m.name)

MemberData ==
    [nick : {Val("absent", ""), PyNone(""), Val("str", ""), Val("str", "nick")},
     user : [username : {Val("str", ""), Val("str", "user")},
             global_name : {PyNone(""), Val("str", ""), Val("str", "global")}]]

MemberInit ==
    /\ pc = "start" /\ op = "display_name"
    /\ self' = Member(args)
    /\ pc' = "constructed"
    /\ UNCHANGED <<op, args, calls, responses, idx, outcome, ret, now>>

MemberDisplayName ==
    /\ pc = "constructed" /\ op = "display_name"
    /\ ret' = DisplayName(self)
    /\ outcome' = "returned"
    /\ pc' = "done"
    /\ UNCHANGED <<op, args, calls, responses, idx, self, now>>

(* ------------------------------ the system ---------------------------- *)

NoObject == [kind |-> "none"]

Fresh ==
    /\ pc = "start"
    /\ calls = <<>>
    /\ responses = <<>>
    /\ idx = 0
    /\ outcome = "running"
    /\ self = NoObject
    /\ ret = NoObject

InitBan == op = "ban" /\ args \in BanArgs /\ Fresh /\ now = 0
InitAddRoles == op = "add_roles" /\ args \in RolesArgs /\ Fresh /\ now = 0
InitRemoveRoles == op = "remove_roles" /\ args \in RolesArgs /\ Fresh /\ now = 0
InitEdit == op = "edit" /\ args \in EditArgs /\ Fresh /\ now \in NowValues
InitToDict == op = "to_dict" /\ args \in MentionsArgs /\ Fresh /\ now = 0
InitAll == op = "all" /\ args = NoArgs /\ Fresh /\ now = 0
InitNone == op = "none" /\ args = NoArgs /\ Fresh /\ now = 0
InitDisplayName == op = "display_name" /\ args \in MemberData /\ Fresh /\ now = 0

Init ==
    \/ InitBan
    \/ InitAddRoles
    \/ InitRemoveRoles
    \/ InitEdit
    \/ InitToDict
    \/ InitAll
    \/ InitNone
    \/ InitDisplayName

Next ==
    \/ Ban
    \/ BanResume
    \/ AddRoles
    \/ AddRolesResume
    \/ RemoveRoles
    \/ RemoveRolesResume
    \/ Edit
    \/ EditResume
    \/ MentionsInit
    \/ MentionsAll
    \/ MentionsNone
    \/ MentionsToDict
    \/ MemberInit
    \/ MemberDisplayName

Spec == Init /\ [][Next]_vars

(* ------------------------------- claims ------------------------------- *)

\* the operation has run its code up to its first await or to its end
Acted == pc # "start"

\* the request the dispatcher was handed is the only one, with this method
\* and this path
OnlyCall(method, res) ==
    /\ Len(calls) = 1
    /\ calls[1].method = method
    /\ calls[1].path = [res |-> res, guild |-> args.guild_id,
                        member |-> args.id, role |-> 0]

\* no request was made and no answer received
NoDispatch == calls = <<>> /\ responses = <<>>

\* the operation ended by raising exc before any request, and built nothing
FailedLocally(exc) ==
    /\ pc = "done"
    /\ outcome = exc
    /\ NoDispatch
    /\ ret = NoObject
    /\ self = NoObject

\* C1: add_roles / remove_roles issue one request per role (PUT resp.
\* DELETE on the role's path), in argument order and one at a time; when
\* the request for role k fails the error propagates, the requests for
\* roles 1..k are exactly the requests made, and none follows (in
\* particular no request undoing the earlier ones); when none fails all n
\* requests are made.
C1_RolesInOrderStopAtFailure ==
    op \in {"add_roles", "remove_roles"} =>
        LET n == Len(args.roles)
            method == IF op = "add_roles" THEN "PUT" ELSE "DELETE"
            want(i) == IF args.roles[i].kind = "int"
                       THEN args.roles[i].val ELSE args.roles[i].id
        IN  /\ Len(calls) <= n
            /\ \A i \in 1..Len(calls) :
                  /\ calls[i].method = method
                  /\ calls[i].path = [res |-> "roles", guild |-> args.guild_id,
                                      member |-> args.id, role |-> want(i)]
            /\ Len(responses) <= Len(calls)
            /\ Len(calls) <= Len(responses) + 1
            /\ \A k \in 1..Len(responses) :
                  responses[k] = "error" =>
                      /\ k = Len(calls)
                      /\ pc = "done"
                      /\ outcome = "HTTPException"
            /\ (pc = "done" /\ outcome = "returned") =>
                  /\ Len(calls) = n
                  /\ Len(responses) = n
            /\ pc = "done" => outcome \in {"returned", "HTTPException"}

\* the first of two role requests failed: the second was never made
C1_Witness ==
    /\ op = "add_roles"
    /\ Len(args.roles) = 2
    /\ args.roles[1].kind = "Role"
    /\ responses = <<"error">>
    /\ Len(calls) = 1
    /\ outcome = "HTTPException"

C3_BothGivenRejected ==
    (op = "ban" /\ Acted /\ args.delete_message_days # 0
        /\ args.delete_message_seconds # 0) =>
        FailedLocally("ValueError")

\* both in range, both non-zero
C3_Witness ==
    /\ op = "ban" /\ pc = "done"
    /\ args.delete_message_days = 1
    /\ args.delete_message_seconds = 1
    /\ outcome = "ValueError"

\* C4: ban() with delete_message_days outside 0..7 or
\* delete_message_seconds outside 0..604800 (negative values included) ends
\* with ValueError with no request made and nothing else changed.
C4_OutOfRangeRejected ==
    (op = "ban" /\ Acted
        /\ (\/ args.delete_message_days \notin 0..7
            \/ args.delete_message_seconds \notin 0..604800)) =>
        FailedLocally("ValueError")

\* one past the upper limit, the other argument left at 0
C4_Witness ==
    /\ op = "ban" /\ pc = "done"
    /\ \/ args.delete_message_days = 8 /\ args.delete_message_seconds = 0
       \/ args.delete_message_days = 0 /\ args.delete_message_seconds = 604801
    /\ outcome = "ValueError"

\* C5 as claimed: edit(communication_disabled_until=None) raises nothing
\* locally and makes one PATCH on the member path whose body has
\* communication_disabled_until set to null.
C5_NoneTimeoutSendsNull ==
    (op = "edit" /\ Acted
        /\ args.communication_disabled_until.kind = "none") =>
        /\ outcome \notin {"TypeError", "AttributeError", "ValueError"}
        /\ OnlyCall("PATCH", "members")
        /\ "communication_disabled_until" \in DOMAIN calls[1].json
        /\ calls[1].json["communication_disabled_until"].kind = "none"

EditKeyNames ==
    {"nick", "roles", "mute", "deaf", "channel_id",
     "communication_disabled_until"}

\* the role identifiers of edit(roles=[...]) in the order given
RolesSentInOrder(body) ==
    LET given == args.roles.val
    IN  /\ body["roles"].kind = "list"
        /\ Len(body["roles"].val) = Len(given)
        /\ \A i \in 1..Len(given) :
              body["roles"].val[i] = IF given[i].kind = "int"
                                     THEN given[i].val ELSE given[i].id

\* C6 as claimed: the body of edit()'s PATCH has a key iff the matching
\* argument is anything but the not-supplied sentinel.
C6_Original ==
    (op = "edit" /\ Len(calls) > 0) =>
        /\ DOMAIN calls[1].json \subseteq EditKeyNames
        /\ \A k \in EditKeyNames :
              k \in DOMAIN calls[1].json <=> args[k].kind # "missing"

\* C6 amended: the body of the PATCH edit() sends has nick, mute, deaf,
\* channel_id or communication_disabled_until iff that argument is anything
\* but the not-supplied sentinel (None and False count as supplied and are
\* sent as they are), and has roles iff roles is a list, then holding the
\* roles' identifiers in order; with nothing supplied the body is empty.
C6_SparsePatch ==
    (op = "edit" /\ Len(calls) > 0) =>
        LET body == calls[1].json
        IN  /\ OnlyCall("PATCH", "members")
            /\ calls[1].has_json
            /\ DOMAIN body \subseteq EditKeyNames
            /\ \A k \in EditKeyNames \ {"roles"} :
                  k \in DOMAIN body <=> args[k].kind # "missing"
            /\ \A k \in {"nick", "mute", "deaf", "channel_id"} :
                  k \in DOMAIN body => body[k] = args[k]
            /\ "roles" \in DOMAIN body <=> args.roles.kind = "list"
            /\ "roles" \in DOMAIN body => RolesSentInOrder(body)
            /\ (\A k \in EditKeyNames : args[k].kind = "missing")
                  => DOMAIN body = {}

\* an explicit None, an explicit False and a two-role list were sent
C6_Witness ==
    /\ op = "edit" /\ pc = "done" /\ outcome = "returned"
    /\ args.nick.kind = "none"
    /\ args.mute.kind = "bool"
    /\ args.roles.kind = "list"
    /\ Len(args.roles.val) = 2
    /\ DOMAIN calls[1].json = {"nick", "mute", "roles"}

\* an isoformat() result read back as seconds
IsoSeconds(iso) ==
    iso.date * 86400 + iso.hour * 3600 + iso.minute * 60 + iso.second

\* C7: edit() resolves communication_disabled_until by type: a duration or
\* an integer second count (bool is an int) is sent as the current time
\* plus that amount, an absolute time is sent unchanged, and a value of any
\* other type ends with TypeError and no PATCH.
C7_TimeoutByType ==
    (op = "edit" /\ Acted) =>
        LET x == args.communication_disabled_until
            sent == calls[1].json["communication_disabled_until"].val
        IN  /\ x.kind \in {"timedelta", "int", "bool"} =>
                  /\ OnlyCall("PATCH", "members")
                  /\ sent.hour \in 0..23
                  /\ sent.minute \in 0..59
                  /\ sent.second \in 0..59
                  /\ IsoSeconds(sent) = now + x.val
            /\ x.kind = "datetime" =>
                  /\ OnlyCall("PATCH", "members")
                  /\ IsoSeconds(sent) = x.val
            /\ x.kind \in {"str", "float"} => FailedLocally("TypeError")

\* an integer second count that carries into the next day
C7_Witness ==
    /\ op = "edit" /\ pc = "done" /\ outcome = "returned"
    /\ args.communication_disabled_until = Val("int", 3600)
    /\ now = 2 * 86400 - 10
    /\ calls[1].json["communication_disabled_until"].val.date = 2
    /\ calls[1].json["communication_disabled_until"].val.hour = 0

\* s is an entry of the parse list of the dict d
InParse(d, s) == \E i \in 1..Len(d["parse"]) : d["parse"][i] = s

\* C8: to_dict() always has a parse list; "everyone" is in it iff everyone
\* is true; for users and roles alike the name is in parse iff the field is
\* the boolean True, the dict has a key of that name iff the field is a
\* list (holding the list's identifiers in order), never both, and neither
\* for False; replied_user: true is there iff reply_user is true.
C8_ToDictShape ==
    (op = "to_dict" /\ pc = "done") =>
        /\ "parse" \in DOMAIN ret
        /\ DOMAIN ret \subseteq {"parse", "users", "roles", "replied_user"}
        /\ \A i \in 1..Len(ret["parse"]) :
              ret["parse"][i] \in {"everyone", "users", "roles"}
        /\ InParse(ret, "everyone") <=> args.everyone
        /\ \A f \in {"users", "roles"} :
              /\ InParse(ret, f) <=> (args[f].kind = "bool" /\ args[f].val)
              /\ f \in DOMAIN ret <=> args[f].kind = "list"
              /\ f \in DOMAIN ret =>
                    /\ Len(ret[f]) = Len(args[f].val)
                    /\ \A i \in 1..Len(ret[f]) : ret[f][i] = args[f].val[i].id
              /\ ~(InParse(ret, f) /\ f \in DOMAIN ret)
              /\ (args[f].kind = "bool" /\ ~args[f].val) =>
                    (~InParse(ret, f) /\ f \notin DOMAIN ret)
        /\ "replied_user" \in DOMAIN ret <=> args.replied_user
        /\ "replied_user" \in DOMAIN ret => ret["replied_user"] = TRUE

\* users an explicit list of two identifiers, roles the boolean True
C8_Witness ==
    /\ op = "to_dict" /\ pc = "done"
    /\ args.users = Val("list", <<[id |-> 2], [id |-> 1]>>)
    /\ args.roles = Val("bool", TRUE)
    /\ ret["users"] = <<2, 1>>

\* C9: AllowedMentions.all().to_dict() is {parse: ["everyone", "users",
\* "roles"], replied_user: true} and AllowedMentions.none().to_dict() is
\* {parse: []}, each with no other key.
C9_Presets ==
    /\ (op = "all" /\ pc = "done") =>
          ret = [parse |-> <<"everyone", "users", "roles">>,
                 replied_user |-> TRUE]
    /\ (op = "none" /\ pc = "done") => ret = [parse |-> <<>>]

C9_Witness ==
    /\ op = "all" /\ pc = "done"
    /\ self.reply_user
    /\ Len(ret["parse"]) = 3

\* C10: display_name is the nickname when present and non-empty, else the
\* global display name when present and non-empty, else the username.
C10_DisplayNameOrder ==
    (op = "display_name" /\ pc = "done") =>
        LET nick == args.nick
            glob == args.user.global_name
            hasNick == nick.kind = "str" /\ nick.val # ""
            hasGlob == glob.kind = "str" /\ glob.val # ""
        IN  /\ hasNick => ret = nick
            /\ (~hasNick /\ hasGlob) => ret = glob
            /\ (~hasNick /\ ~hasGlob) => ret = args.user.username

\* an empty nickname does not hide the global display name
C10_Witness ==
    /\ op = "display_name" /\ pc = "done"
    /\ args.nick = Val("str", "")
    /\ args.user.global_name = Val("str", "global")
    /\ ret = Val("str", "global")

====
